---------------------------- MODULE Spec2Model ----------------------------
(***************************************************************************)
(* A model of blutil.py, the command line tool that programs BL600         *)
(* "smartBASIC" modules over a serial port with AT commands.               *)
(*                                                                         *)
(* Text is modelled as it is on the wire: a string is a sequence of        *)
(* character codes (bytes), so that framing, hex encoding, decoding and    *)
(* the terminator test are computed and not assumed.                       *)
(*                                                                         *)
(* The serial device is the environment.  When a command is written the    *)
(* device queues a reply drawn from a set of byte streams; the engine      *)
(* reads the queue one byte at a time while the clock advances.  Bytes the *)
(* engine does not read stay queued for whoever reads next.                *)
(*                                                                         *)
(* Time is counted in tenths of a second since the start of the current    *)
(* writecmd call and saturates at the deadline.  The clock either has not  *)
(* moved or has passed the deadline: the program tests nothing else.       *)
(*                                                                         *)
(* os.path is modelled as posixpath.  File arguments are non-empty ASCII   *)
(* strings.  A run starts where main parses its arguments: test_wine,      *)
(* which runs before, touches neither the port nor the arguments.          *)
(*                                                                         *)
(* Three sets of runs are specified: Spec, every operation on a few paths  *)
(* against a device that answers well or badly; EngineSpec, one writecmd   *)
(* call against every short reply; NameSpec, --rm and --run of many paths. *)
(***************************************************************************)
EXTENDS Integers, Sequences, FiniteSets, TLC

(***************************************************************************)
(* Bounds of the model.                                                    *)
(***************************************************************************)
\* longest compiled file that is uploaded
MaxFileLen == 17
\* longest free part of a device reply in the engine specification
MaxBody == 3
\* longest file name stem among the paths of the naming specification
MaxStemLen == 26

(***************************************************************************)
(* Program constants.                                                      *)
(***************************************************************************)
\* writecmd(..., timeout=0.5), in tenths of a second
Timeout == 5
\* serial.Serial(..., timeout=0.8), in tenths of a second
PortTimeout == 8
\* chunks(f, 16)
ChunkLen == 16
\* [:24] in get_devicename
MaxNameLen == 24
\* port.read(1024)
ReadMax == 1024

\* b"00\r"
Terminator == <<48, 48, 13>>
\* b'\n01\t'
ErrorMarker == <<10, 48, 49, 9>>
\* ".uwc"
ExtUwc == <<46, 117, 119, 99>>
\* ".sb"
ExtSb == <<46, 115, 98>>
\* the characters of the class [:*?"<>|]
IllegalChars == {58, 42, 63, 34, 60, 62, 124}
\* the characters str.strip() removes from an ASCII string
Whitespace == {9, 10, 11, 12, 13, 28, 29, 30, 31, 32}

(***************************************************************************)
(* Sequences of bytes.                                                     *)
(***************************************************************************)
Min(a, b) == IF a < b THEN a ELSE b

StartsWith(s, p) == Len(s) >= Len(p) /\ SubSeq(s, 1, Len(p)) = p

\* bytes.endswith
EndsWith(s, p) == Len(s) >= Len(p) /\ SubSeq(s, Len(s) - Len(p) + 1, Len(s)) = p

\* s[n:] for n >= 0
Drop(s, n) == SubSeq(s, n + 1, Len(s))

\* s[:n] for n >= 0
Take(s, n) == SubSeq(s, 1, Min(n, Len(s)))

\* s[:-n] for n > 0
DropLast(s, n) == SubSeq(s, 1, Len(s) - n)

\* str.rfind(c) + 1: the last position of c in s, 0 when there is none
LastIndex(s, c) ==
    IF \E i \in 1..Len(s) : s[i] = c
    THEN CHOOSE i \in 1..Len(s) : s[i] = c /\ \A j \in (i+1)..Len(s) : s[j] # c
    ELSE 0

\* str.find(c) + 1: the first position of c in s, 0 when there is none
FirstIndex(s, c) ==
    IF \E i \in 1..Len(s) : s[i] = c
    THEN CHOOSE i \in 1..Len(s) : s[i] = c /\ \A j \in 1..(i-1) : s[j] # c
    ELSE 0

\* the characters of s that are not in the set cs, in order
RECURSIVE Remove(_, _)
Remove(s, cs) ==
    IF s = <<>> THEN <<>>
    ELSE IF Head(s) \in cs THEN Remove(Tail(s), cs)
    ELSE <<Head(s)>> \o Remove(Tail(s), cs)

\* str.replace(a, b) for single characters a and b
Replace(s, a, b) == [i \in 1..Len(s) |-> IF s[i] = a THEN b ELSE s[i]]

\* str.strip()
Strip(s) ==
    LET keep == {i \in 1..Len(s) : s[i] \notin Whitespace}
    IN  IF keep = {} THEN <<>>
        ELSE LET lo == CHOOSE i \in keep : \A j \in keep : i <= j
                 hi == CHOOSE i \in keep : \A j \in keep : j <= i
             IN  SubSeq(s, lo, hi)

\* str(b, "ascii") succeeds exactly when every byte is below 128
IsAscii(s) == \A i \in 1..Len(s) : s[i] < 128

\* bytes.decode() succeeds exactly on well-formed UTF-8; of the bytes the
\* model's device sends, the ASCII ones are and a lone 255 is not
IsUtf8(s) == \A i \in 1..Len(s) : s[i] < 128

\* "%02x" % x, one digit
HexDigit(n) == IF n < 10 THEN 48 + n ELSE 87 + n

\* "".join([ "%02x" % x for x in line ])
RECURSIVE Hex(_)
Hex(line) ==
    IF line = <<>> THEN <<>>
    ELSE <<HexDigit(Head(line) \div 16), HexDigit(Head(line) % 16)>> \o Hex(Tail(line))

\* "%d" % n for n >= 0
RECURSIVE Decimal(_)
Decimal(n) == IF n < 10 THEN <<48 + n>> ELSE Decimal(n \div 10) \o <<48 + (n % 10)>>

(***************************************************************************)
(* Paths and device file names.                                            *)
(***************************************************************************)
\* os.path.splitext(p): <<root, ext>>
splitext(p) ==
    LET sep == LastIndex(p, 47)
        dot == LastIndex(p, 46)
    IN  IF dot > sep /\ \E i \in (sep + 1)..(dot - 1) : p[i] # 46
        THEN <<SubSeq(p, 1, dot - 1), SubSeq(p, dot, Len(p))>>
        ELSE <<p, <<>> >>

\* os.path.split(filepath)[1]
basename(p) == Drop(p, LastIndex(p, 47))

\* filename.split('.')[0]
BeforeFirstDot(s) ==
    IF FirstIndex(s, 46) = 0 THEN s ELSE SubSeq(s, 1, FirstIndex(s, 46) - 1)

\* get_devicename without the [:24]
get_devicename_whole(filepath) ==
    Remove(BeforeFirstDot(basename(filepath)), IllegalChars)

get_devicename(filepath) ==
    Take(Remove(BeforeFirstDot(basename(filepath)), IllegalChars), MaxNameLen)

\* upload's first lines: the path of the compiled file
UploadPath(filepath) ==
    IF splitext(filepath)[2] # ExtUwc
    THEN splitext(filepath)[1] \o ExtUwc
    ELSE filepath

(***************************************************************************)
(* Commands.                                                               *)
(***************************************************************************)
Quoted(s) == <<34>> \o s \o <<34>>

\* '+DEL "%s" +' % devicename
CmdDelIfExists(name) == <<43, 68, 69, 76, 32>> \o Quoted(name) \o <<32, 43>>
\* '+FOW "%s"' % devicename
CmdFow(name) == <<43, 70, 79, 87, 32>> \o Quoted(name)
\* '+FWRH "%s"' % row
CmdFwrh(row) == <<43, 70, 87, 82, 72, 32>> \o Quoted(row)
\* '+FCL'
CmdFcl == <<43, 70, 67, 76>>
\* '+RUN "%s"' % devicename
CmdRun(name) == <<43, 82, 85, 78, 32>> \o Quoted(name)
\* '+DIR'
CmdDir == <<43, 68, 73, 82>>
\* '+DEL "%s"' % filename
CmdDel(name) == <<43, 68, 69, 76, 32>> \o Quoted(name)
\* '&F 1'
CmdFormat == <<38, 70, 32, 49>>
\* "I %d" % param
CmdInfo(param) == <<73, 32>> \o Decimal(param)
\* ''
CmdProbe == <<>>

\* "AT%s%s\r" % ("" if args.startswith("+") else " ", args)
Frame(args) ==
    <<65, 84>> \o (IF StartsWith(args, <<43>>) THEN <<>> ELSE <<32>>) \o args \o <<13>>

(***************************************************************************)
(* Optional values: None is the empty tuple, a value x is <<x>>.           *)
(***************************************************************************)
None == <<>>
Some(x) == <<x>>
\* Python's truth value of an optional string: not None and not empty
Truthy(o) == o # None /\ o[1] # <<>>

(***************************************************************************)
(* The inputs of a run.                                                    *)
(***************************************************************************)
\* "p.sb", "d/q.uwc", "r*.t"
Paths == { <<112, 46, 115, 98>>,
           <<100, 47, 113, 46, 117, 119, 99>>,
           <<114, 42, 46, 116>> }

\* --model "B 1"
ForcedModels == { <<66, 32, 49>> }

\* the command line: one of the mutually exclusive operations, with or
\* without --model and --no-dtr
NoOperation ==
    [compile |-> None, load |-> None, run |-> None, ls |-> FALSE, rm |-> None,
     format |-> FALSE]

Operations ==
    { [NoOperation EXCEPT !.compile = Some(p)] : p \in Paths } \cup
    { [NoOperation EXCEPT !.load = Some(p)] : p \in Paths } \cup
    { [NoOperation EXCEPT !.run = Some(p)] : p \in Paths } \cup
    { [NoOperation EXCEPT !.rm = Some(p)] : p \in Paths } \cup
    { [NoOperation EXCEPT !.ls = TRUE], [NoOperation EXCEPT !.format = TRUE] }

parse_args ==
    { [model |-> m, no_dtr |-> d, compile |-> o.compile, load |-> o.load,
       run |-> o.run, ls |-> o.ls, rm |-> o.rm, format |-> o.format] :
      m \in {None} \cup { Some(x) : x \in ForcedModels },
      d \in BOOLEAN, o \in Operations }

\* the compiled file the upload opens: absent, or its bytes; the lengths
\* are those next to a multiple of the chunk length, and the longest
FileLens ==
    { n \in 0..MaxFileLen : n % ChunkLen \in {0, 1, ChunkLen - 1} } \cup {MaxFileLen}
FileOfLen(n) == [i \in 1..n |-> (i * 53 + 7) % 256]
Files == {None} \cup { Some(FileOfLen(n)) : n \in FileLens }

\* what the device may queue when a command reaches it:
\* nothing, "\n00\r", "M\tr 1\r00\r", "\n01\tE", "x", "\xff00\r", "\n00\rx"
DeviceReplies ==
    { <<>>,
      <<10, 48, 48, 13>>,
      <<77, 9, 114, 32, 49, 13, 48, 48, 13>>,
      <<10, 48, 49, 9, 69>>,
      <<120>>,
      <<255, 48, 48, 13>>,
      <<10, 48, 48, 13, 120>> }

(***************************************************************************)
(* The state of a run.                                                     *)
(***************************************************************************)
VARIABLES
    args,       \* the parsed command line, as main rewrites it
    file,       \* the compiled file on the host: None or its bytes
    pc,         \* the statement main or the running operation is at
    model,      \* device.model: None until it is assigned
    detected,   \* detect_model's local variable model
    chunk,      \* upload: the number of chunks written and acknowledged
    reading,    \* writecmd is in its accumulation loop
    cmd,        \* writecmd's argument args
    response,   \* writecmd's accumulator
    t,          \* tenths of a second since writecmd's start, at most Timeout
    rx,         \* bytes the device has sent and the host has not read
    sent,       \* every command written to the port, with what became of it
    dtr,        \* every value the reset line was set to
    steps,      \* the steps main has started, in order
    result,     \* how the last writecmd call ended, and with what text
    raised,     \* the exception that ended the run, "none" while there is none
    output,     \* run: the bytes port.read(1024) returned
    report,     \* run: what it printed about them
    exit        \* the exit status of the process, None while it runs

vars == <<args, file, pc, model, detected, chunk, reading, cmd, response, t, rx,
          sent, dtr, steps, result, raised, output, report, exit>>

NoResult == [kind |-> "none", text |-> <<>>]

(***************************************************************************)
(* main's order of work, lines 176 to 201: each stage is an if statement.  *)
(***************************************************************************)
\* main with the upload before the compilation
Stages_upload_first ==
    <<"reset", "model", "list", "delete", "format", "upload", "compile", "run">>

Stages == <<"reset", "model", "list", "delete", "format", "compile", "upload", "run">>

\* main that pulses the reset line whatever --no-dtr says
Wanted_reset_despite_no_dtr(a, stage) ==
    CASE stage = "reset" ->
           Truthy(a.load) \/ Truthy(a.run) \/ Truthy(a.rm) \/ a.ls \/ a.format
              \/ a.model = None
      [] stage = "model" -> a.model # None \/ Truthy(a.compile)
      [] stage = "list" -> a.ls
      [] stage = "delete" -> Truthy(a.rm)
      [] stage = "format" -> a.format
      [] stage = "compile" -> Truthy(a.compile)
      [] stage = "upload" -> Truthy(a.load)
      [] stage = "run" -> Truthy(a.run)

\* main that takes the model from the command line only
Wanted_forced_model_only(a, stage) ==
    CASE stage = "reset" ->
           (Truthy(a.load) \/ Truthy(a.run) \/ Truthy(a.rm) \/ a.ls \/ a.format
              \/ a.model = None) /\ ~a.no_dtr
      [] stage = "model" -> a.model # None
      [] stage = "list" -> a.ls
      [] stage = "delete" -> Truthy(a.rm)
      [] stage = "format" -> a.format
      [] stage = "compile" -> Truthy(a.compile)
      [] stage = "upload" -> Truthy(a.load)
      [] stage = "run" -> Truthy(a.run)

\* the condition of each if statement
Wanted(a, stage) ==
    CASE stage = "reset" ->
           (Truthy(a.load) \/ Truthy(a.run) \/ Truthy(a.rm) \/ a.ls \/ a.format
              \/ a.model = None) /\ ~a.no_dtr
      [] stage = "model" -> a.model # None \/ Truthy(a.compile)
      [] stage = "list" -> a.ls
      [] stage = "delete" -> Truthy(a.rm)
      [] stage = "format" -> a.format
      [] stage = "compile" -> Truthy(a.compile)
      [] stage = "upload" -> Truthy(a.load)
      [] stage = "run" -> Truthy(a.run)

\* the first statement of each stage
EntryPc(stage) ==
    CASE stage = "reset" -> "reset"
      [] stage = "model" -> "model"
      [] stage = "list" -> "list"
      [] stage = "delete" -> "delete"
      [] stage = "format" -> "fmt_probe1"
      [] stage = "compile" -> "compile"
      [] stage = "upload" -> "up_del"
      [] stage = "run" -> "run_probe"

\* where main goes after stage number k (0: before the first stage)
AfterStage(a, k) ==
    LET later == { j \in (k + 1)..Len(Stages) : Wanted(a, Stages[j]) }
    IN  IF later = {} THEN "exit"
        ELSE EntryPc(Stages[CHOOSE j \in later : \A i \in later : j <= i])

StageNo(stage) == CHOOSE k \in 1..Len(Stages) : Stages[k] = stage

\* main returns normally when no stage is left
ExitIfDone(next) == IF next = "exit" THEN Some(0) ELSE None

(***************************************************************************)
(* main, lines 153 to 174: the arguments are parsed, a file given to --run *)
(* is also loaded, a .sb file given to load is also compiled.              *)
(***************************************************************************)
\* only a .uwc file given to --run is also loaded
Preload_uwc_only(a) ==
    IF a.run # None /\ splitext(a.run[1])[2] = ExtUwc
    THEN [a EXCEPT !.load = a.run] ELSE a

Preload(a) ==
    IF a.run # None /\ splitext(a.run[1])[2] \in {ExtUwc, ExtSb}
    THEN [a EXCEPT !.load = a.run] ELSE a

Precompile(a) ==
    IF a.load # None /\ splitext(a.load[1])[2] = ExtSb
    THEN [a EXCEPT !.compile = a.load] ELSE a

Init ==
    /\ args \in parse_args
    /\ file \in Files
    /\ pc = "main"
    /\ model = None
    /\ detected = <<>>
    /\ chunk = 0
    /\ reading = FALSE
    /\ cmd = <<>>
    /\ response = <<>>
    /\ t = 0
    /\ rx = <<>>
    /\ sent = <<>>
    /\ dtr = <<>>
    /\ steps = <<>>
    /\ result = NoResult
    /\ raised = "none"
    /\ output = <<>>
    /\ report = NoResult
    /\ exit = None

main ==
    /\ pc = "main"
    /\ args' = Precompile(Preload(args))
    /\ pc' = AfterStage(args', 0)
    /\ exit' = ExitIfDone(pc')
    /\ UNCHANGED <<file, model, detected, chunk, reading, cmd, response, t, rx,
                   sent, dtr, steps, result, raised, output, report>>

\* lines 176 to 180: the reset pulse
reset ==
    /\ pc = "reset"
    /\ dtr' = dtr \o <<FALSE, TRUE>>
    /\ steps' = Append(steps, "reset")
    /\ pc' = AfterStage(args, StageNo("reset"))
    /\ exit' = ExitIfDone(pc')
    /\ UNCHANGED <<args, file, model, detected, chunk, reading, cmd, response, t,
                   rx, sent, result, raised, output, report>>

\* main that detects the model even when one is given
set_model_always_detects ==
    /\ pc = "model"
    /\ model' = model
    /\ pc' = "detect_i0"
    /\ steps' = Append(steps, "identify")
    /\ exit' = ExitIfDone(pc')
    /\ UNCHANGED <<args, file, detected, chunk, reading, cmd, response, t, rx,
                   sent, dtr, result, raised, output, report>>

\* lines 182 to 185: the model is the one given, or the one detected
set_model ==
    /\ pc = "model"
    /\ IF args.model # None
       THEN /\ model' = Some(Replace(args.model[1], 32, 95))
            /\ pc' = AfterStage(args, StageNo("model"))
            /\ steps' = Append(steps, "model")
       ELSE /\ model' = model
            /\ pc' = "detect_i0"
            /\ steps' = Append(steps, "identify")
    /\ exit' = ExitIfDone(pc')
    /\ UNCHANGED <<args, file, detected, chunk, reading, cmd, response, t, rx,
                   sent, dtr, result, raised, output, report>>

(***************************************************************************)
(* The operations: the command each one writes at each of its statements   *)
(* and the statement that follows when the command succeeded.              *)
(***************************************************************************)
\* chunks that stops at the last full chunk
chunks_full_only(somefile, chunklen) ==
    [k \in 1..(Len(somefile) \div chunklen) |->
        SubSeq(somefile, (k - 1) * chunklen + 1, k * chunklen)]

\* the generator chunks(somefile, chunklen): the chunks it yields, in order
chunks(somefile, chunklen) ==
    [k \in 1..((Len(somefile) + chunklen - 1) \div chunklen) |->
        SubSeq(somefile, (k - 1) * chunklen + 1, Min(k * chunklen, Len(somefile)))]

\* read_param that takes the first field
read_param_first_field(text) ==
    IF FirstIndex(text, 9) = 0 THEN text ELSE SubSeq(text, 1, FirstIndex(text, 9) - 1)

\* self.writecmd(...).split("\t")[-1]
read_param(text) == Drop(text, LastIndex(text, 9))

\* "%s_%s" % (model, revision.replace(" ","_"))
ModelName(mdl, revision) == mdl \o <<95>> \o Replace(revision, 32, 95)

detect_model(at) ==
    CASE at = "detect_i0" -> [cmd |-> CmdInfo(0), next |-> "detect_i13"]
      [] at = "detect_i13" ->
           [cmd |-> CmdInfo(13), next |-> AfterStage(args, StageNo("model"))]

\* upload that opens the file for writing before it deletes the old one
upload_open_first(at) ==
    LET devicename == get_devicename(UploadPath(args.load[1]))
        rows == chunks(file[1], ChunkLen)
    IN  CASE at = "up_del" -> [cmd |-> CmdFow(devicename), next |-> "up_fow"]
          [] at = "up_fow" -> [cmd |-> CmdDelIfExists(devicename), next |-> "up_open"]
          [] at = "up_chunk" ->
               [cmd |-> CmdFwrh(Hex(rows[chunk + 1])),
                next |-> IF chunk + 1 < Len(rows) THEN "up_chunk" ELSE "up_fcl"]
          [] at = "up_fcl" ->
               [cmd |-> CmdFcl, next |-> AfterStage(args, StageNo("upload"))]

upload(at) ==
    LET devicename == get_devicename(UploadPath(args.load[1]))
        rows == chunks(file[1], ChunkLen)
    IN  CASE at = "up_del" -> [cmd |-> CmdDelIfExists(devicename), next |-> "up_fow"]
          [] at = "up_fow" -> [cmd |-> CmdFow(devicename), next |-> "up_open"]
          [] at = "up_chunk" ->
               [cmd |-> CmdFwrh(Hex(rows[chunk + 1])),
                next |-> IF chunk + 1 < Len(rows) THEN "up_chunk" ELSE "up_fcl"]
          [] at = "up_fcl" ->
               [cmd |-> CmdFcl, next |-> AfterStage(args, StageNo("upload"))]

\* run that starts the program under the name of the host file
run_by_file_name(at) ==
    CASE at = "run_probe" -> [cmd |-> CmdProbe, next |-> "run_cmd"]
      [] at = "run_cmd" ->
           [cmd |-> CmdRun(Remove(basename(args.run[1]), IllegalChars)),
            next |-> "run_read"]

run(at) ==
    CASE at = "run_probe" -> [cmd |-> CmdProbe, next |-> "run_cmd"]
      [] at = "run_cmd" ->
           [cmd |-> CmdRun(get_devicename(args.run[1])), next |-> "run_read"]

list(at) == [cmd |-> CmdDir, next |-> AfterStage(args, StageNo("list"))]

delete(at) ==
    [cmd |-> CmdDel(get_devicename(args.rm[1])),
     next |-> AfterStage(args, StageNo("delete"))]

\* format that erases without asking first whether the device answers
format_without_probe(at) ==
    CASE at = "fmt_probe1" -> [cmd |-> CmdFormat, next |-> "fmt_settle"]
      [] at = "fmt_cmd" -> [cmd |-> CmdFormat, next |-> "fmt_settle"]
      [] at = "fmt_probe2" ->
           [cmd |-> CmdProbe, next |-> AfterStage(args, StageNo("format"))]

format(at) ==
    CASE at = "fmt_probe1" -> [cmd |-> CmdProbe, next |-> "fmt_cmd"]
      [] at = "fmt_cmd" -> [cmd |-> CmdFormat, next |-> "fmt_settle"]
      [] at = "fmt_probe2" ->
           [cmd |-> CmdProbe, next |-> AfterStage(args, StageNo("format"))]

\* the statements that call writecmd
CallSites ==
    {"detect_i0", "detect_i13", "up_del", "up_fow", "up_chunk", "up_fcl",
     "run_probe", "run_cmd", "list", "delete", "fmt_probe1", "fmt_cmd",
     "fmt_probe2", "call"}

\* the call at statement `at`: its command and the statement after it
Call(at) ==
    CASE at \in {"detect_i0", "detect_i13"} -> detect_model(at)
      [] at \in {"up_del", "up_fow", "up_chunk", "up_fcl"} -> upload(at)
      [] at \in {"run_probe", "run_cmd"} -> run(at)
      [] at = "list" -> list(at)
      [] at = "delete" -> delete(at)
      [] at \in {"fmt_probe1", "fmt_cmd", "fmt_probe2"} -> format(at)
      [] at = "call" -> [cmd |-> cmd, next |-> "exit"]

\* every call waits for a response
expect_response_always(at) == TRUE

\* the calls made with expect_response=False
expect_response(at) == at \notin {"run_cmd", "fmt_cmd"}

\* the step of main that a first statement opens
StepAt(at) ==
    CASE at = "list" -> <<"list">>
      [] at = "delete" -> <<"delete">>
      [] at = "fmt_probe1" -> <<"format">>
      [] at = "up_del" -> <<"upload">>
      [] at = "run_probe" -> <<"run">>
      [] OTHER -> <<>>

(***************************************************************************)
(* writecmd.                                                               *)
(***************************************************************************)
\* the replies a device may queue in the engine specification: an optional
\* error marker, any bytes of "0", "\r", "\t", "x", 0xff up to MaxBody long,
\* an optional terminator; and the two replies "OK\t1234\r00\r" and
\* "\n01\tbad thing"
BodyBytes == {48, 13, 9, 120, 255}

RECURSIVE Bodies(_)
Bodies(n) ==
    IF n = 0 THEN { <<>> }
    ELSE Bodies(n - 1) \cup
         { Append(b, c) : b \in { x \in Bodies(n - 1) : Len(x) = n - 1 }, c \in BodyBytes }

EngineReplies ==
    { pre \o b \o post : pre \in { <<>>, ErrorMarker }, b \in Bodies(MaxBody),
                         post \in { <<>>, Terminator } }
    \cup { <<79, 75, 9, 49, 50, 51, 52, 13, 48, 48, 13>>,
           <<10, 48, 49, 9, 98, 97, 100, 32, 116, 104, 105, 110, 103>> }

\* what a started program may queue besides: "hello\r\n00\r"
RunReplies == DeviceReplies \cup { <<104, 101, 108, 108, 111, 13, 10, 48, 48, 13>> }

Replies(at) ==
    IF at = "call" THEN EngineReplies
    ELSE IF at = "run_cmd" THEN RunReplies
    ELSE DeviceReplies

\* a loop that waits for the terminator only
LoopCondition_no_deadline(resp, elapsed) == ~EndsWith(resp, Terminator)

\* a loop that reads until the deadline and looks for the terminator then
LoopCondition_deadline_only(resp, elapsed) == elapsed < Timeout

\* the condition of the accumulation loop
LoopCondition(resp, elapsed) == ~EndsWith(resp, Terminator) /\ elapsed < Timeout

\* lines 40 to 48: how a call ends once the loop is left
writecmd(a, resp) ==
    IF EndsWith(resp, Terminator)
    THEN IF IsAscii(resp)
         THEN [kind |-> "ok", text |-> Strip(DropLast(resp, 3))]
         ELSE [kind |-> "decode_error", text |-> resp]
    ELSE IF Len(resp) = 0
         THEN [kind |-> "no_response", text |-> <<65, 84>> \o a]
         ELSE IF Len(resp) > 4 /\ SubSeq(resp, 1, 4) = ErrorMarker
              THEN IF IsUtf8(Drop(resp, 4))
                   THEN [kind |-> "device_error", text |-> Drop(resp, 4)]
                   ELSE [kind |-> "decode_error", text |-> resp]
              ELSE [kind |-> "unexpected", text |-> resp]

\* an error that is printed without a failing exit status
StatusOf_zero(kind) == 0

\* lines 204 to 208: a RuntimeError is printed and the status is 2; any
\* other exception ends the interpreter with a traceback and status 1
StatusOf(kind) ==
    IF kind \in {"attribute_error", "file_not_found", "decode_error"} THEN 1 ELSE 2

\* a writecmd that may be entered again before the call in progress has
\* returned, as it would be from a second thread
writecmd_write_reentrant ==
    /\ pc \in CallSites
    /\ exit = None
    /\ sent' = Append(sent, [frame |-> Frame(Call(pc).cmd),
                             st |-> IF expect_response(pc) THEN "wait" ELSE "noack"])
    /\ \E reply \in Replies(pc) : rx' = rx \o reply
    /\ steps' = steps \o StepAt(pc)
    /\ IF expect_response(pc)
       THEN /\ reading' = TRUE
            /\ cmd' = Call(pc).cmd
            /\ response' = <<>>
            /\ t' = 0
            /\ pc' = pc
       ELSE /\ pc' = Call(pc).next
            /\ UNCHANGED <<reading, cmd, response, t>>
    /\ UNCHANGED <<args, file, model, detected, chunk, dtr, result, raised, output,
                   report, exit>>

\* lines 33 to 37: the command is framed and written; without
\* expect_response the call returns at once
writecmd_write ==
    /\ pc \in CallSites
    /\ ~reading
    /\ exit = None
    /\ sent' = Append(sent, [frame |-> Frame(Call(pc).cmd),
                             st |-> IF expect_response(pc) THEN "wait" ELSE "noack"])
    /\ \E reply \in Replies(pc) : rx' = rx \o reply
    /\ steps' = steps \o StepAt(pc)
    /\ IF expect_response(pc)
       THEN /\ reading' = TRUE
            /\ cmd' = Call(pc).cmd
            /\ response' = <<>>
            /\ t' = 0
            /\ pc' = pc
       ELSE /\ pc' = Call(pc).next
            /\ UNCHANGED <<reading, cmd, response, t>>
    /\ UNCHANGED <<args, file, model, detected, chunk, dtr, result, raised, output,
                   report, exit>>

\* lines 38 and 39, a byte is there: it is appended
writecmd_read ==
    /\ reading
    /\ LoopCondition(response, t)
    /\ rx # <<>>
    /\ response' = Append(response, Head(rx))
    /\ rx' = Tail(rx)
    /\ UNCHANGED <<args, file, pc, model, detected, chunk, reading, cmd, t, sent,
                   dtr, steps, result, raised, output, report, exit>>

\* lines 38 and 39, no byte comes: port.read(1) returns b'' after the
\* port's timeout
writecmd_read_nothing ==
    /\ reading
    /\ LoopCondition(response, t)
    /\ rx = <<>>
    /\ t' = Min(t + PortTimeout, Timeout)
    /\ UNCHANGED <<args, file, pc, model, detected, chunk, reading, cmd, response,
                   rx, sent, dtr, steps, result, raised, output, report, exit>>

\* the clock passes the deadline while writecmd runs; the loop only asks
\* whether the deadline has passed, so earlier instants are not told apart
tick ==
    /\ reading
    /\ t < Timeout
    /\ t' = Timeout
    /\ UNCHANGED <<args, file, pc, model, detected, chunk, reading, cmd, response,
                   rx, sent, dtr, steps, result, raised, output, report, exit>>

\* lines 40 to 48 and the caller's next statement: the loop is left, the
\* call returns its text or raises
writecmd_return ==
    /\ reading
    /\ ~LoopCondition(response, t)
    /\ reading' = FALSE
    /\ result' = writecmd(cmd, response)
    /\ sent' = [sent EXCEPT ![Len(sent)].st = IF result'.kind = "ok" THEN "ok" ELSE "fail"]
    /\ IF result'.kind = "ok"
       THEN /\ pc' = Call(pc).next
            /\ exit' = ExitIfDone(pc')
            /\ detected' = IF pc = "detect_i0" THEN read_param(result'.text) ELSE detected
            /\ model' = IF pc = "detect_i13"
                        THEN Some(ModelName(detected, read_param(result'.text)))
                        ELSE model
            /\ chunk' = IF pc = "up_chunk" THEN chunk + 1 ELSE chunk
            /\ steps' = IF pc = "up_fcl" THEN Append(steps, "uploaded") ELSE steps
            /\ raised' = raised
       ELSE /\ pc' = "exit"
            /\ exit' = Some(StatusOf(result'.kind))
            /\ raised' = result'.kind
            /\ UNCHANGED <<detected, model, chunk, steps>>
    /\ UNCHANGED <<args, file, cmd, response, t, rx, dtr, output, report>>

(***************************************************************************)
(* The statements of the operations that are not writecmd calls.           *)
(***************************************************************************)
\* lines 59 to 71: how compile ends, given whether the compiler of this
\* model exists and the status it exits with
compile(mdl, exists, ret) ==
    IF mdl = None THEN "attribute_error"
    ELSE IF ~exists THEN "compiler_missing"
    ELSE IF ret # 0 THEN "compilation_failed"
    ELSE "ok"

compile_call ==
    /\ pc = "compile"
    /\ \E exists \in BOOLEAN, ret \in {0, 1} :
         LET how == compile(model, exists, ret)
         IN  IF how = "ok"
             THEN /\ steps' = steps \o <<"compile", "compiled">>
                  /\ pc' = AfterStage(args, StageNo("compile"))
                  /\ exit' = ExitIfDone(pc')
                  /\ raised' = raised
             ELSE /\ steps' = Append(steps, "compile")
                  /\ pc' = "exit"
                  /\ exit' = Some(StatusOf(how))
                  /\ raised' = how
    /\ UNCHANGED <<args, file, model, detected, chunk, reading, cmd, response, t,
                   rx, sent, dtr, result, output, report>>

\* line 81 and the first f.read of line 82: the compiled file is opened
upload_open ==
    /\ pc = "up_open"
    /\ IF file = None
       THEN /\ pc' = "exit"
            /\ exit' = Some(StatusOf("file_not_found"))
            /\ raised' = "file_not_found"
       ELSE /\ pc' = IF Len(chunks(file[1], ChunkLen)) = 0 THEN "up_fcl" ELSE "up_chunk"
            /\ UNCHANGED <<exit, raised>>
    /\ chunk' = 0
    /\ UNCHANGED <<args, file, model, detected, reading, cmd, response, t, rx,
                   sent, dtr, steps, result, output, report>>

\* lines 121 to 123: after the settle delay, what has arrived is discarded
format_settle ==
    /\ pc = "fmt_settle"
    /\ \E n \in 0..Min(Len(rx), ReadMax) : rx' = Drop(rx, n)
    /\ pc' = "fmt_probe2"
    /\ UNCHANGED <<args, file, model, detected, chunk, reading, cmd, response, t,
                   sent, dtr, steps, result, raised, output, report, exit>>

\* lines 94 to 104: what run prints about the captured bytes
run_report(out) ==
    IF Len(out) # 0
    THEN IF Len(out) >= 3 /\ SubSeq(out, Len(out) - 2, Len(out)) = Terminator
         THEN IF Len(out) > 3 /\ ~IsUtf8(DropLast(out, 3))
              THEN [kind |-> "decode_error", text |-> out]
              ELSE [kind |-> "completed", text |-> DropLast(out, 3)]
         ELSE IF Len(out) > 4 /\ SubSeq(out, 1, 4) = ErrorMarker
              THEN IF IsUtf8(Drop(out, 4))
                   THEN [kind |-> "error", text |-> Drop(out, 4)]
                   ELSE [kind |-> "decode_error", text |-> out]
              ELSE IF out # <<10, 48, 48>>
                   THEN [kind |-> "immediate", text |-> out]
                   ELSE [kind |-> "nothing", text |-> <<>>]
    ELSE [kind |-> "running", text |-> <<>>]

\* lines 93 to 104: the bytes that arrived within the port's timeout are
\* read and reported
run_read ==
    /\ pc = "run_read"
    /\ \E n \in 0..Min(Len(rx), ReadMax) :
         /\ output' = Take(rx, n)
         /\ rx' = Drop(rx, n)
    /\ report' = run_report(output')
    /\ IF report'.kind = "decode_error"
       THEN /\ pc' = "exit"
            /\ exit' = Some(StatusOf("decode_error"))
            /\ raised' = "decode_error"
       ELSE /\ pc' = AfterStage(args, StageNo("run"))
            /\ exit' = ExitIfDone(pc')
            /\ raised' = raised
    /\ UNCHANGED <<args, file, model, detected, chunk, reading, cmd, response, t,
                   sent, dtr, steps, result>>

(***************************************************************************)
(* The specification of a run of the tool.                                 *)
(***************************************************************************)
Next ==
    \/ main
    \/ reset
    \/ set_model
    \/ writecmd_write
    \/ writecmd_read
    \/ writecmd_read_nothing
    \/ tick
    \/ writecmd_return
    \/ compile_call
    \/ upload_open
    \/ format_settle
    \/ run_read

Spec == Init /\ [][Next]_vars

(***************************************************************************)
(* The specification of one writecmd call against any reply.               *)
(***************************************************************************)
\* '' and '+FCL'
EngineCommands == { CmdProbe, CmdFcl }

EngineInit ==
    /\ args = [model |-> None, no_dtr |-> TRUE, compile |-> None, load |-> None,
               run |-> None, ls |-> FALSE, rm |-> None, format |-> FALSE]
    /\ file = None
    /\ pc = "call"
    /\ model = None
    /\ detected = <<>>
    /\ chunk = 0
    /\ reading = FALSE
    /\ cmd \in EngineCommands
    /\ response = <<>>
    /\ t = 0
    /\ rx = <<>>
    /\ sent = <<>>
    /\ dtr = <<>>
    /\ steps = <<>>
    /\ result = NoResult
    /\ raised = "none"
    /\ output = <<>>
    /\ report = NoResult
    /\ exit = None

EngineNext ==
    \/ writecmd_write
    \/ writecmd_read
    \/ writecmd_read_nothing
    \/ tick
    \/ writecmd_return

EngineSpec == EngineInit /\ [][EngineNext]_vars

\* the interpreter keeps executing the call, every read returns (with a byte
\* or, after the port's timeout, without), and the clock advances
EngineLive ==
    /\ EngineSpec
    /\ WF_vars(writecmd_write)
    /\ WF_vars(writecmd_read \/ writecmd_read_nothing)
    /\ WF_vars(writecmd_return)
    /\ WF_vars(tick)

(***************************************************************************)
(* The specification of the runs that name a device file: --rm and --run   *)
(* of many paths, with --model given.                                      *)
(***************************************************************************)
\* "", "d/", "e.f/", "/", "d:/"
NameDirs == { <<>>, <<100, 47>>, <<101, 46, 102, 47>>, <<47>>, <<100, 58, 47>> }

\* "a*aaa...": n characters, the second one illegal
StemOfLen(n) == [i \in 1..n |-> IF i = 2 THEN 42 ELSE 97]

\* "", "q", "r*", ':*?"<>|', "a.b", ".h", "x y", and the long ones
NameStems ==
    { <<>>, <<113>>, <<114, 42>>, <<58, 42, 63, 34, 60, 62, 124>>, <<97, 46, 98>>,
      <<46, 104>>, <<120, 32, 121>> }
    \cup { StemOfLen(n) : n \in {MaxNameLen, MaxNameLen + 1, MaxStemLen} }

\* "", ".sb", ".uwc", ".t", "."
NameExts == { <<>>, ExtSb, ExtUwc, <<46, 116>>, <<46>> }

NamePaths == { d \o st \o e : d \in NameDirs, st \in NameStems, e \in NameExts } \ { <<>> }

NameInit ==
    /\ args \in { [model |-> Some(m), no_dtr |-> FALSE, compile |-> o.compile,
                   load |-> o.load, run |-> o.run, ls |-> o.ls, rm |-> o.rm,
                   format |-> o.format] :
                  m \in ForcedModels,
                  o \in { [NoOperation EXCEPT !.rm = Some(p)] : p \in NamePaths } \cup
                        { [NoOperation EXCEPT !.run = Some(p)] : p \in NamePaths } }
    /\ file = Some(FileOfLen(1))
    /\ pc = "main"
    /\ model = None
    /\ detected = <<>>
    /\ chunk = 0
    /\ reading = FALSE
    /\ cmd = <<>>
    /\ response = <<>>
    /\ t = 0
    /\ rx = <<>>
    /\ sent = <<>>
    /\ dtr = <<>>
    /\ steps = <<>>
    /\ result = NoResult
    /\ raised = "none"
    /\ output = <<>>
    /\ report = NoResult
    /\ exit = None

NameNext ==
    \/ main
    \/ reset
    \/ set_model
    \/ writecmd_write
    \/ writecmd_read
    \/ writecmd_read_nothing
    \/ tick
    \/ writecmd_return
    \/ compile_call
    \/ upload_open
    \/ run_read

NameSpec == NameInit /\ [][NameNext]_vars

(***************************************************************************)
(* Reading the log of written commands.                                    *)
(***************************************************************************)
\* 'AT+FWRH "', 'AT+FOW "', 'AT+DEL "', 'AT+RUN "', 'AT I '
PrefixFwrh == <<65, 84, 43, 70, 87, 82, 72, 32, 34>>
PrefixFow == <<65, 84, 43, 70, 79, 87, 32, 34>>
PrefixDel == <<65, 84, 43, 68, 69, 76, 32, 34>>
PrefixRun == <<65, 84, 43, 82, 85, 78, 32, 34>>
PrefixInfo == <<65, 84, 32, 73, 32>>
\* 'AT+FCL\r', 'AT \r', 'AT &F 1\r', 'AT+DIR\r'
FrameFcl == <<65, 84, 43, 70, 67, 76, 13>>
FrameProbe == <<65, 84, 32, 13>>
FrameFormat == <<65, 84, 32, 38, 70, 32, 49, 13>>
FrameDir == <<65, 84, 43, 68, 73, 82, 13>>
\* '" +\r' ends the delete-if-exists of upload, '"\r' the other quoted commands
SuffixIfExists == <<34, 32, 43, 13>>
SuffixQuoted == <<34, 13>>

IsFwrh(i) == StartsWith(sent[i].frame, PrefixFwrh) /\ EndsWith(sent[i].frame, SuffixQuoted)
IsFow(i) == StartsWith(sent[i].frame, PrefixFow) /\ EndsWith(sent[i].frame, SuffixQuoted)
IsDelIfExists(i) ==
    StartsWith(sent[i].frame, PrefixDel) /\ EndsWith(sent[i].frame, SuffixIfExists)
IsFcl(i) == sent[i].frame = FrameFcl
IsInfo(i) == StartsWith(sent[i].frame, PrefixInfo)
IsProbe(i) == sent[i].frame = FrameProbe
IsRun(i) == StartsWith(sent[i].frame, PrefixRun) /\ EndsWith(sent[i].frame, SuffixQuoted)

Fwrhs == { i \in DOMAIN sent : IsFwrh(i) }
Fcls == { i \in DOMAIN sent : IsFcl(i) }

\* the text between the quotes of a quoted command
Between(frame, prefix, suffix) ==
    SubSeq(frame, Len(prefix) + 1, Len(frame) - Len(suffix))

\* the value of a lowercase hex digit, 999 for any other character
HexVal(c) ==
    IF c \in 48..57 THEN c - 48 ELSE IF c \in 97..102 THEN c - 87 ELSE 999

\* ceil(n / 16)
CeilDiv16(n) == IF n % 16 = 0 THEN n \div 16 ELSE (n \div 16) + 1

(***************************************************************************)
(* C1: an upload of an N-byte file writes ceil(N/16) +FWRH commands, the   *)
(* k-th carrying bytes 16(k-1)+1 .. min(16k, N) of the file as two         *)
(* lowercase hex digits each; when the answer to a +FWRH is not success,   *)
(* nothing is written after it (no further +FWRH, no +FCL).                *)
(***************************************************************************)
C1_UploadChunks ==
    /\ file = None => Fwrhs = {}
    /\ file # None =>
         LET N == Len(file[1])
         IN  /\ Cardinality(Fwrhs) <= CeilDiv16(N)
             /\ Fcls # {} => Cardinality(Fwrhs) = CeilDiv16(N)
             /\ \A i \in Fwrhs :
                  LET k == Cardinality({ j \in Fwrhs : j <= i })
                      row == Between(sent[i].frame, PrefixFwrh, SuffixQuoted)
                      size == Min(16, N - 16 * (k - 1))
                  IN  /\ Len(row) = 2 * size
                      /\ \A j \in 1..size :
                           16 * HexVal(row[2 * j - 1]) + HexVal(row[2 * j])
                             = file[1][16 * (k - 1) + j]
    /\ \A i \in Fwrhs : sent[i].st = "fail" => i = Len(sent) /\ pc = "exit"
    /\ \A i \in Fwrhs : i < Len(sent) => sent[i].st = "ok"

\* a 17-byte file was uploaded in two chunks and closed
C1_Witness ==
    /\ file # None /\ Len(file[1]) = 17
    /\ Cardinality(Fwrhs) = 2
    /\ \E i \in Fcls : sent[i].st = "ok"

(***************************************************************************)
(* C2: the commands of an upload are written in the order +DEL "<name>" +, *)
(* +FOW "<name>", the +FWRH chunks, +FCL; each is written only after the   *)
(* command before it was answered with success; +FCL is written at most    *)
(* once, after the last chunk succeeded, and once in a finished upload.    *)
(***************************************************************************)
C2_UploadOrder ==
    /\ \A i \in DOMAIN sent :
         /\ IsDelIfExists(i) => \A j \in 1..(i - 1) : IsInfo(j) /\ sent[j].st = "ok"
         /\ IsFow(i) =>
              /\ i > 1 /\ IsDelIfExists(i - 1) /\ sent[i - 1].st = "ok"
              /\ Between(sent[i].frame, PrefixFow, SuffixQuoted)
                   = Between(sent[i - 1].frame, PrefixDel, SuffixIfExists)
         /\ IsFwrh(i) =>
              i > 1 /\ (IsFow(i - 1) \/ IsFwrh(i - 1)) /\ sent[i - 1].st = "ok"
         /\ IsFcl(i) =>
              /\ i > 1 /\ (IsFow(i - 1) \/ IsFwrh(i - 1)) /\ sent[i - 1].st = "ok"
              /\ file # None /\ Cardinality(Fwrhs) = CeilDiv16(Len(file[1]))
    /\ Cardinality(Fcls) <= 1
    /\ "upload" \in { steps[k] : k \in DOMAIN steps } =>
         \E i \in DOMAIN sent : IsDelIfExists(i)
    /\ "uploaded" \in { steps[k] : k \in DOMAIN steps } =>
         \E i \in Fcls : sent[i].st = "ok"

\* a one-chunk upload went through: delete, open, one chunk, close
C2_Witness ==
    \E i \in DOMAIN sent :
        /\ i + 3 \in DOMAIN sent
        /\ IsDelIfExists(i) /\ IsFow(i + 1) /\ IsFwrh(i + 2) /\ IsFcl(i + 3)
        /\ \A j \in i..(i + 3) : sent[j].st = "ok"

(***************************************************************************)
(* C3: whatever the device answers to the +DEL "<name>" + of an upload,    *)
(* the upload goes on to write +FOW "<name>".  Stated for the runs that    *)
(* have ended: if the delete was written, so was the open.                 *)
(***************************************************************************)
C3_DeleteFailureNonFatal ==
    (exit # None /\ \E i \in DOMAIN sent : IsDelIfExists(i))
        => \E j \in DOMAIN sent : IsFow(j)

\* what the code does instead: +FOW is written only after +DEL succeeded
C3_DeleteFailureIsFatal ==
    \A i \in DOMAIN sent :
        (IsDelIfExists(i) /\ sent[i].st = "fail") => (i = Len(sent) /\ pc = "exit")

(***************************************************************************)
(* Reading how a writecmd call ended.                                      *)
(***************************************************************************)
\* the call has returned or raised
Ended == ~reading /\ result.kind # "none"

\* x is y without its leading and trailing whitespace
IsStripped(x, y) ==
    /\ x = <<>> \/ (x[1] \notin Whitespace /\ x[Len(x)] \notin Whitespace)
    /\ \E i \in 0..Len(y) :
         /\ i + Len(x) <= Len(y)
         /\ x = SubSeq(y, i + 1, i + Len(x))
         /\ \A k \in (1..i) \cup ((i + Len(x) + 1)..Len(y)) : y[k] \in Whitespace

\* "OK\t1234\r00\r" and "OK\t1234"
ExampleReply == <<79, 75, 9, 49, 50, 51, 52, 13, 48, 48, 13>>
ExampleText == <<79, 75, 9, 49, 50, 51, 52>>
\* "\n01\tbad thing" and "bad thing"
ExampleError == <<10, 48, 49, 9, 98, 97, 100, 32, 116, 104, 105, 110, 103>>
ExampleMessage == <<98, 97, 100, 32, 116, 104, 105, 110, 103>>

(***************************************************************************)
(* C4: when the accumulated bytes end with "00\r", writecmd returns them   *)
(* without the last three bytes and without surrounding whitespace, and    *)
(* raises nothing.                                                         *)
(***************************************************************************)
C4_SuccessText ==
    (Ended /\ EndsWith(response, Terminator)) =>
        /\ result.kind = "ok"
        /\ raised = "none"
        /\ IsStripped(result.text, SubSeq(response, 1, Len(response) - 3))

\* the same for the replies that are ASCII throughout, which the code
\* handles as the claim says
C4_SuccessTextOfAscii ==
    (Ended /\ EndsWith(response, Terminator) /\ \A i \in DOMAIN response : response[i] < 128) =>
        /\ result.kind = "ok"
        /\ raised = "none"
        /\ IsStripped(result.text, SubSeq(response, 1, Len(response) - 3))

\* the example of the claim: "OK\t1234\r" then "00\r" gives "OK\t1234"
C4_Example == Ended /\ response = ExampleReply /\ result = [kind |-> "ok", text |-> ExampleText]

(***************************************************************************)
(* C5: when the loop is left and the accumulated bytes do not end with     *)
(* "00\r", one error is raised: none read -> no response, naming the       *)
(* command; more than 4 bytes starting with "\n01\t" -> device error with  *)
(* the bytes after the marker; anything else -> unexpected response with   *)
(* the raw bytes.  Bytes that start with the marker and end with the       *)
(* terminator are a success.                                               *)
(***************************************************************************)
C5_ErrorClassification ==
    Ended =>
        IF EndsWith(response, Terminator)
        THEN StartsWith(response, ErrorMarker) => (result.kind = "ok" /\ raised = "none")
        ELSE /\ raised = result.kind
             /\ IF response = <<>>
                THEN /\ raised = "no_response"
                     /\ EndsWith(result.text, cmd)
                ELSE IF Len(response) > 4 /\ StartsWith(response, ErrorMarker)
                THEN /\ raised = "device_error"
                     /\ ErrorMarker \o result.text = response
                ELSE /\ raised = "unexpected"
                     /\ result.text = response

\* the same for the replies that are ASCII throughout
C5_ErrorClassificationOfAscii ==
    (\A i \in DOMAIN response : response[i] < 128) => C5_ErrorClassification

\* the example of the claim: "\n01\tbad thing" and then silence
C5_Example ==
    /\ Ended /\ response = ExampleError
    /\ result = [kind |-> "device_error", text |-> ExampleMessage]

(***************************************************************************)
(* C6: every writecmd call that waits for a response ends, with its text   *)
(* or with one error, whatever the device sends; a byte is read only while *)
(* the accumulated bytes do not end with "00\r" and the deadline has not   *)
(* passed.                                                                 *)
(***************************************************************************)
C6_Terminates ==
    /\ reading ~> Ended
    /\ [][(reading /\ response' # response) =>
            (~EndsWith(response, Terminator) /\ t < Timeout
               /\ response' = Append(response, Head(rx)))]_vars
    /\ [](Ended => ((result.kind = "ok") <=> (raised = "none")))

\* the deadline ended a call in the middle of a reply: bytes are still queued
C6_Witness ==
    /\ Ended /\ raised = "unexpected"
    /\ t = Timeout /\ rx # <<>> /\ response # <<>>

(***************************************************************************)
(* C7: a writecmd call with expect_response false writes the framed        *)
(* command ("AT", a space unless the text starts with "+", the text, "\r") *)
(* and returns: it reads no byte, changes no result and raises nothing;    *)
(* the bytes queued stay queued for the caller.                            *)
(***************************************************************************)
C7_WriteOnly ==
    [][(pc \in {"run_cmd", "fmt_cmd"} /\ sent' # sent) =>
         LET f == sent'[Len(sent')].frame
         IN  /\ sent' = Append(sent, [frame |-> f, st |-> "noack"])
             /\ pc = "fmt_cmd" => f = FrameFormat
             /\ pc = "run_cmd" =>
                  /\ StartsWith(f, PrefixRun) /\ EndsWith(f, SuffixQuoted)
                  /\ Between(f, PrefixRun, SuffixQuoted) = get_devicename(args.run[1])
             /\ ~reading' /\ response' = response /\ result' = result
             /\ Len(rx') >= Len(rx) /\ SubSeq(rx', 1, Len(rx)) = rx
             /\ raised' = "none" /\ exit' = None
             /\ pc' \in {"run_read", "fmt_settle"}]_vars

\* +RUN was written, the device has answered, and run has yet to read
C7_Witness ==
    /\ pc = "run_read" /\ rx # <<>>
    /\ IsRun(Len(sent)) /\ sent[Len(sent)].st = "noack"

(***************************************************************************)
(* C8: every error is fatal and nothing is retried: once a command or a    *)
(* step has failed, the process has exited with a status that is not 0 and *)
(* takes no further step (no byte is written, no later operation starts,   *)
(* no command is sent again); every command whose answer does not end with *)
(* the terminator and every failed compilation is such an error.           *)
(***************************************************************************)
C8_ErrorsAreFatal ==
    /\ [](raised # "none" => (pc = "exit" /\ ~reading /\ exit \in {<<1>>, <<2>>}))
    /\ [](\A i \in DOMAIN sent : sent[i].st = "fail" => (i = Len(sent) /\ raised # "none"))
    /\ [](exit = <<0>> => (raised = "none" /\ \A i \in DOMAIN sent : sent[i].st \in {"ok", "noack"}))
    /\ [][raised = "none"]_vars
    /\ [][(reading /\ ~reading' /\ ~EndsWith(response, Terminator)) => raised' # "none"]_vars
    /\ [][(pc = "compile" /\ steps'[Len(steps')] # "compiled") => raised' # "none"]_vars

\* a chunk of an upload that --run asked for failed: no +FCL, no run
C8_Witness ==
    /\ args.run # None
    /\ sent # <<>> /\ IsFwrh(Len(sent)) /\ sent[Len(sent)].st = "fail"
    /\ raised = "device_error" /\ exit = <<2>>

\* the place of a step in the order reset, identify, compile, upload, run
StepRank(x) ==
    CASE x = "reset" -> 1
      [] x \in {"model", "identify"} -> 2
      [] x \in {"list", "delete", "format"} -> 3
      [] x = "compile" -> 4
      [] x = "compiled" -> 5
      [] x = "upload" -> 6
      [] x = "uploaded" -> 7
      [] x = "run" -> 8

\* main has begun the step x
Started(x) == \E k \in DOMAIN steps : steps[k] = x

(***************************************************************************)
(* C9: the steps of a run come in the order reset, identify, compile,      *)
(* upload, run, each at most once: the reset pulse precedes every command, *)
(* identification precedes compile, compile has succeeded before the first *)
(* command of upload is written, and +FCL has succeeded before the first   *)
(* command of run is written.                                              *)
(***************************************************************************)
C9_FixedOrder ==
    /\ \A i, j \in DOMAIN steps : i < j => StepRank(steps[i]) < StepRank(steps[j])
    /\ dtr \in { <<>>, <<FALSE, TRUE>> }
    /\ dtr # <<>> <=> Started("reset")
    /\ \A i \in DOMAIN sent :
         /\ IsInfo(i) => Started("identify")
         /\ (IsDelIfExists(i) \/ IsFow(i) \/ IsFwrh(i) \/ IsFcl(i)) => Started("upload")
         /\ IsRun(i) => Started("run")
         /\ IsProbe(i) => (Started("run") \/ Started("format"))
         /\ sent[i].frame = FrameDir => Started("list")
    /\ (Started("compile") /\ args.model = None) =>
         /\ Started("identify") /\ model # None
         /\ \E i \in DOMAIN sent :
              /\ i + 1 \in DOMAIN sent
              /\ IsInfo(i) /\ IsInfo(i + 1) /\ sent[i + 1].st = "ok"
    /\ (Started("upload") /\ Truthy(args.compile)) => Started("compiled")
    /\ (Started("run") /\ Truthy(args.load)) =>
         /\ Started("uploaded")
         /\ \E i \in Fcls : sent[i].st = "ok" /\ \A j \in DOMAIN sent :
                                                   (IsProbe(j) \/ IsRun(j)) => i < j

\* a run that does everything: --run p.sb without --model and --no-dtr
C9_Witness ==
    /\ exit = <<0>>
    /\ steps = <<"reset", "identify", "compile", "compiled", "upload", "uploaded", "run">>

\* which of compile, upload and run main has begun
Performed == { x \in {"compile", "upload", "run"} : Started(x) }

\* nothing but the expected steps, and all of them in a run that ended well
Exactly(expected) == Performed \subseteq expected /\ (exit = <<0>> => Performed = expected)

(***************************************************************************)
(* C10: which of compile, upload and run are performed follows from the    *)
(* flag and the extension: --run of a .sb file all three, --run of a .uwc  *)
(* file upload and run, --load of a .sb file compile and upload, --load of *)
(* a .uwc file upload, --compile compile; --ls, --rm and --format none.    *)
(* A run that fails performs no other step than these, a run that ends     *)
(* with status 0 has performed all of them.                                *)
(***************************************************************************)
C10_StepsFollowFlags ==
    /\ (args.run # None /\ EndsWith(args.run[1], ExtSb)) =>
         Exactly({"compile", "upload", "run"})
    /\ (args.run # None /\ EndsWith(args.run[1], ExtUwc)) => Exactly({"upload", "run"})
    /\ (args.run = None /\ args.load # None /\ EndsWith(args.load[1], ExtSb)) =>
         Exactly({"compile", "upload"})
    /\ (args.run = None /\ args.load # None /\ EndsWith(args.load[1], ExtUwc)) =>
         Exactly({"upload"})
    /\ (args.run = None /\ args.load = None /\ args.compile # None) => Exactly({"compile"})
    /\ (args.ls \/ args.rm # None \/ args.format) => Exactly({})

\* --run p.sb ended with status 0 after compile, upload and run
C10_Witness ==
    /\ exit = <<0>>
    /\ args.run = Some(<<112, 46, 115, 98>>)
    /\ Performed = {"compile", "upload", "run"}

\* 'AT I 0\r' and 'AT I 13\r'
FrameInfo0 == <<65, 84, 32, 73, 32, 48, 13>>
FrameInfo13 == <<65, 84, 32, 73, 32, 49, 51, 13>>

\* y is x with every space replaced by an underscore
IsUnderscored(y, x) ==
    /\ Len(y) = Len(x)
    /\ \A i \in DOMAIN x : y[i] = IF x[i] = 32 THEN 95 ELSE x[i]

\* main is past the lines that settle the model
PastModel == pc \notin {"main", "reset", "model"}

(***************************************************************************)
(* C11: when --model is given no 'I 0' or 'I 13' is ever written and the   *)
(* identify step is not begun; from line 183 on the model of the device is *)
(* the given value with its spaces replaced by underscores, and it never   *)
(* changes again.  In any run identification is begun at most once and     *)
(* each of its two queries is written at most once.                        *)
(***************************************************************************)
C11_ForcedModelSkipsIdentify ==
    /\ args.model # None =>
         /\ \A i \in DOMAIN sent : ~IsInfo(i)
         /\ ~Started("identify")
         /\ model # None => IsUnderscored(model[1], args.model[1])
         /\ PastModel => model # None
    /\ Cardinality({ k \in DOMAIN steps : steps[k] = "identify" }) <= 1
    /\ Cardinality({ i \in DOMAIN sent : sent[i].frame = FrameInfo0 }) <= 1
    /\ Cardinality({ i \in DOMAIN sent : sent[i].frame = FrameInfo13 }) <= 1
    /\ \A i \in DOMAIN sent : IsInfo(i) => sent[i].frame \in {FrameInfo0, FrameInfo13}

\* --compile p.sb --model "B 1" compiled with the model B_1, nothing written
C11_Witness ==
    /\ args.model = Some(<<66, 32, 49>>)
    /\ Started("compiled")
    /\ model = Some(<<66, 95, 49>>)
    /\ sent = <<>>

\* the run has an operation that uses the device, or has to detect the model
TalksToDevice ==
    \/ args.load # None \/ args.run # None \/ args.rm # None \/ args.ls \/ args.format
    \/ args.model = None

(***************************************************************************)
(* C12: with --no-dtr the reset line is never set.  Without it the line is *)
(* set low and then high, at most once and before any command is written,  *)
(* exactly in the runs that use the device: --load, --run, --rm, --ls,     *)
(* --format, or a model that has to be detected.  A --compile run with     *)
(* --model sets no line and writes no command.                             *)
(***************************************************************************)
C12_ResetPulse ==
    /\ dtr \in { <<>>, <<FALSE, TRUE>> }
    /\ args.no_dtr => dtr = <<>>
    /\ ~TalksToDevice => (dtr = <<>> /\ sent = <<>>)
    /\ (~args.no_dtr /\ TalksToDevice /\ pc \notin {"main", "reset"}) => dtr = <<FALSE, TRUE>>
    /\ (~args.no_dtr /\ sent # <<>>) => dtr = <<FALSE, TRUE>>
    /\ sent # <<>> => TalksToDevice

\* --ls without --no-dtr: the pulse was given and +DIR was answered
C12_Witness ==
    /\ args.ls /\ ~args.no_dtr
    /\ dtr = <<FALSE, TRUE>>
    /\ Len(sent) = 1 /\ sent[1].frame = FrameDir /\ sent[1].st = "ok"

\* run has read and reported
Reported == report.kind # "none"

\* "hello\r\n00\r" and "hello\r\n"
ExampleOutput == <<104, 101, 108, 108, 111, 13, 10, 48, 48, 13>>
ExampleProgramText == <<104, 101, 108, 108, 111, 13, 10>>

(***************************************************************************)
(* C13: run reports the bytes it captured after +RUN and raises nothing:   *)
(* bytes ending with "00\r" -> completed, with the bytes before the        *)
(* terminator as output; else bytes starting with "\n01\t" -> the error    *)
(* after the marker; else any other bytes -> immediate output, raw; no     *)
(* bytes -> probably still running.                                        *)
(***************************************************************************)
C13_RunClassification ==
    Reported =>
        /\ raised = "none"
        /\ IF EndsWith(output, Terminator)
           THEN report = [kind |-> "completed", text |-> DropLast(output, 3)]
           ELSE IF StartsWith(output, ErrorMarker)
           THEN report = [kind |-> "error", text |-> Drop(output, 4)]
           ELSE IF output # <<>>
           THEN report = [kind |-> "immediate", text |-> output]
           ELSE report = [kind |-> "running", text |-> <<>>]

\* what the code does: the same for captured bytes that are ASCII, except
\* that the bare marker "\n01\t" is immediate output and "\n00" is passed
\* over in silence; a byte that does not decode ends the run
C13_RunClassificationAsCoded ==
    Reported =>
        IF \E i \in DOMAIN output : output[i] >= 128
        THEN (EndsWith(output, Terminator) \/ StartsWith(output, ErrorMarker))
                <=> (raised = "decode_error" /\ exit = <<1>>)
        ELSE /\ raised = "none"
             /\ IF EndsWith(output, Terminator)
                THEN report = [kind |-> "completed", text |-> DropLast(output, 3)]
                ELSE IF StartsWith(output, ErrorMarker) /\ output # ErrorMarker
                THEN report = [kind |-> "error", text |-> Drop(output, 4)]
                ELSE IF output = <<>>
                THEN report = [kind |-> "running", text |-> <<>>]
                ELSE IF output = <<10, 48, 48>>
                THEN report = [kind |-> "nothing", text |-> <<>>]
                ELSE report = [kind |-> "immediate", text |-> output]

\* the examples of the claim: "hello\r\n00\r" is a completed program that
\* printed "hello\r\n", and no bytes is a program still running
C13_Example ==
    /\ output = ExampleOutput
    /\ report = [kind |-> "completed", text |-> ExampleProgramText]
    /\ exit = <<0>>

C13_ExampleRunning ==
    /\ Reported /\ output = <<>> /\ report.kind = "running" /\ exit = <<0>>

\* the command written as number i is one of the two that are not answered
IsUnacknowledged(i) == IsRun(i) \/ sent[i].frame = FrameFormat

(***************************************************************************)
(* C14: +RUN "<name>" and &F 1 are written only directly after an empty    *)
(* command that was answered with success; after a probe that failed       *)
(* nothing is written.  A --format run ends with status 0 only when it     *)
(* wrote probe, &F 1, probe and both probes succeeded; the second probe is *)
(* written only after the settle step, which writes nothing and only       *)
(* drops queued bytes.                                                     *)
(***************************************************************************)
C14_ProbeGates ==
    /\ [](\A i \in DOMAIN sent :
            IsUnacknowledged(i) => (i > 1 /\ IsProbe(i - 1) /\ sent[i - 1].st = "ok"))
    /\ [](\A i \in DOMAIN sent :
            (IsProbe(i) /\ sent[i].st = "fail") => (i = Len(sent) /\ pc = "exit"))
    /\ []((args.format /\ exit = <<0>>) =>
            /\ Len(sent) = 3
            /\ IsProbe(1) /\ sent[1].st = "ok"
            /\ sent[2] = [frame |-> FrameFormat, st |-> "noack"]
            /\ IsProbe(3) /\ sent[3].st = "ok")
    /\ [][(sent # <<>> /\ sent[Len(sent)].frame = FrameFormat /\ sent' # sent) =>
            pc = "fmt_probe2"]_vars
    /\ [][(pc # "fmt_probe2" /\ pc' = "fmt_probe2") =>
            /\ sent' = sent /\ sent[Len(sent)].frame = FrameFormat
            /\ \E n \in 0..Len(rx) : rx' = SubSeq(rx, n + 1, Len(rx))]_vars

\* a --format run that ended well: probe, &F 1, probe
C14_Witness ==
    /\ args.format /\ exit = <<0>>
    /\ Len(sent) = 3 /\ sent[2].frame = FrameFormat /\ sent[3].st = "ok"

\* a probe of run failed: +RUN was never written
C14_WitnessRun ==
    /\ Started("run") /\ exit = <<2>>
    /\ IsProbe(Len(sent)) /\ sent[Len(sent)].st = "fail"

\* the commands written that still wait for their response
Outstanding == { i \in DOMAIN sent : sent[i].st = "wait" }

(***************************************************************************)
(* C15: at most one command waits for its response at any time, and it is  *)
(* the last one written, in the call that is reading; a command is written *)
(* only when no earlier command waits for its response.  The two commands  *)
(* written without expect_response never wait.                             *)
(***************************************************************************)
C15_OneOutstanding ==
    /\ [](Cardinality(Outstanding) <= 1)
    /\ [](Outstanding = IF reading THEN {Len(sent)} ELSE {})
    /\ [](reading => sent # <<>>)
    /\ [][Len(sent') > Len(sent) =>
            /\ ~reading /\ Outstanding = {}
            /\ Len(sent') = Len(sent) + 1
            /\ \A i \in DOMAIN sent : sent'[i] = sent[i]]_vars
    /\ [][\A i \in DOMAIN sent :
            (sent[i].st # "wait" /\ i \in DOMAIN sent') => sent'[i] = sent[i]]_vars

\* the fourth command of an upload waits while the three before it have
\* been answered
C15_Witness ==
    /\ reading /\ Len(sent) = 4 /\ IsFcl(4)
    /\ Outstanding = {4}
    /\ \A i \in 1..3 : sent[i].st = "ok"

\* f is the last of the fields of text that tabs separate
IsLastField(f, text) ==
    /\ \A i \in DOMAIN f : f[i] # 9
    /\ \/ text = f
       \/ Len(text) > Len(f) /\ EndsWith(text, <<9>> \o f)

\* m is "<mdl>_<revision>" for the last field of text, its spaces replaced
IsModelName(m, mdl, text) ==
    /\ StartsWith(m, mdl \o <<95>>)
    /\ \E k \in 0..Len(text) :
         /\ IsLastField(Drop(text, k), text)
         /\ IsUnderscored(Drop(m, Len(mdl) + 1), Drop(text, k))

(***************************************************************************)
(* C16: detect_model writes 'I 0' and, only after its success, 'I 13';     *)
(* it keeps the last tab-separated field of each answer and sets the model *)
(* to "<field of I 0>_<field of I 13 with spaces as underscores>".  When   *)
(* a query fails the error ends the run, the model stays unset, and after  *)
(* a failed 'I 0' no 'I 13' is written.                                    *)
(***************************************************************************)
C16_Identify ==
    /\ [](\A i \in DOMAIN sent : sent[i].frame = FrameInfo13 =>
            (i > 1 /\ sent[i - 1] = [frame |-> FrameInfo0, st |-> "ok"]))
    /\ [](\A i \in DOMAIN sent :
            (sent[i] = [frame |-> FrameInfo0, st |-> "ok"] /\ i < Len(sent)) =>
                sent[i + 1].frame = FrameInfo13)
    /\ [](\A i \in DOMAIN sent : (IsInfo(i) /\ sent[i].st = "fail") =>
            (i = Len(sent) /\ model = None /\ raised # "none" /\ pc = "exit"))
    /\ [][(pc = "detect_i0" /\ reading /\ ~reading') =>
            /\ model' = model
            /\ IF result'.kind = "ok"
               THEN IsLastField(detected', result'.text) /\ pc' = "detect_i13"
               ELSE raised' = result'.kind /\ exit' \in {<<1>>, <<2>>}]_vars
    /\ [][(pc = "detect_i13" /\ reading /\ ~reading') =>
            IF result'.kind = "ok"
            THEN model' # None /\ IsModelName(model'[1], detected, result'.text)
            ELSE model' = model /\ raised' = result'.kind /\ exit' \in {<<1>>, <<2>>}]_vars
    /\ [][model' # model => (pc = "detect_i13" \/ (pc = "model" /\ args.model # None))]_vars
    /\ []((args.model = None /\ model # None) =>
            \E i \in DOMAIN sent : sent[i] = [frame |-> FrameInfo13, st |-> "ok"])

\* both queries were answered "M\tr 1": the model is "r 1_r_1"
C16_Witness ==
    /\ args.model = None
    /\ model = Some(<<114, 32, 49, 95, 114, 95, 49>>)
    /\ Len(sent) >= 2 /\ sent[1].frame = FrameInfo0 /\ sent[2].frame = FrameInfo13

\* 'I 0' failed: nothing else was written and the model is unset
C16_WitnessFailure ==
    /\ sent = << [frame |-> FrameInfo0, st |-> "fail"] >>
    /\ model = None /\ exit = <<2>>

(***************************************************************************)
(* C19: whenever main is at the call of compile or has made it, the model  *)
(* of the device is set: to the value of --model when one is given, else   *)
(* by an identification that succeeded.  compile never fails for want of   *)
(* the model.                                                              *)
(***************************************************************************)
C19_IdentityBeforeCompile ==
    /\ (pc = "compile" \/ Started("compile")) =>
         /\ model # None
         /\ args.model # None => IsUnderscored(model[1], args.model[1])
         /\ args.model = None =>
              \E i \in DOMAIN sent : sent[i] = [frame |-> FrameInfo13, st |-> "ok"]
    /\ raised # "attribute_error"

\* compile was called with a detected model in a --load of p.sb
C19_Witness ==
    /\ args.model = None /\ args.run = None /\ args.load # None
    /\ Started("compile")
    /\ model = Some(<<114, 32, 49, 95, 114, 95, 49>>)

\* the command written as number i is the +DEL "<name>" of --rm
IsDel(i) == StartsWith(sent[i].frame, PrefixDel) /\ EndsWith(sent[i].frame, SuffixQuoted)

\* the device file name in the command written as number i
NameOfDel(i) == Between(sent[i].frame, PrefixDel, SuffixQuoted)
NameOfDelIfExists(i) == Between(sent[i].frame, PrefixDel, SuffixIfExists)
NameOfFow(i) == Between(sent[i].frame, PrefixFow, SuffixQuoted)
NameOfRun(i) == Between(sent[i].frame, PrefixRun, SuffixQuoted)

\* the names written for the path the command line gave to --rm or --run
NamesOfPath ==
    { NameOfDel(i) : i \in { j \in DOMAIN sent : IsDel(j) } } \cup
    { NameOfRun(i) : i \in { j \in DOMAIN sent : IsRun(j) } }

\* the path the command line gave to --rm or --run
GivenPath == IF args.rm # None THEN args.rm[1] ELSE args.run[1]

\* the characters : * ? " < > |
Forbidden == {58, 42, 63, 34, 60, 62, 124}

\* the base name of a path: what follows its last "/"
BaseOf(p) ==
    LET starts == { k \in 0..Len(p) :
                      (k = 0 \/ p[k] = 47) /\ \A j \in (k + 1)..Len(p) : p[j] # 47 }
    IN  SubSeq(p, (CHOOSE k \in starts : TRUE) + 1, Len(p))

(***************************************************************************)
(* C17: the device file name written for a host path holds none of the     *)
(* characters : * ? " < > |, is at most 24 characters long, and is the     *)
(* name of the same base name in any other directory; the commands of one  *)
(* run that name the same path carry the same name.                        *)
(***************************************************************************)
C17_DeviceName ==
    /\ \A n \in NamesOfPath :
         /\ \A k \in DOMAIN n : n[k] \notin Forbidden
         /\ Len(n) <= 24
         /\ \A d \in NameDirs : get_devicename(d \o BaseOf(GivenPath)) = n
    /\ Cardinality(NamesOfPath) <= 1
    /\ (args.run # None /\ splitext(args.run[1])[2] = ExtUwc) =>
         \A i \in DOMAIN sent :
             /\ IsDelIfExists(i) => (NamesOfPath \subseteq {NameOfDelIfExists(i)})
             /\ IsFow(i) => (NamesOfPath \subseteq {NameOfFow(i)})

\* --rm of a path in a directory whose file name is longer than 24
\* characters and holds a "*": the name deleted has 24 characters
C17_Witness ==
    /\ args.rm # None
    /\ Len(BaseOf(args.rm[1])) > 24 /\ Len(BaseOf(args.rm[1])) < Len(args.rm[1])
    /\ \E k \in 1..24 : args.rm[1][Len(args.rm[1]) - Len(BaseOf(args.rm[1])) + k] = 42
    /\ \E i \in DOMAIN sent : IsDel(i) /\ sent[i].st = "ok" /\ Len(NameOfDel(i)) = 24

(***************************************************************************)
(* C20: in a run with --run, the name in the +DEL "<name>" + and the       *)
(* +FOW "<name>" of the upload, derived from the path with its extension   *)
(* replaced by .uwc, is the name in the +RUN "<name>" that follows,        *)
(* derived from the path as given.                                         *)
(***************************************************************************)
C20_UploadedIsRun ==
    args.run # None =>
        \A i, j \in DOMAIN sent :
            /\ (IsDelIfExists(i) /\ IsRun(j)) => NameOfDelIfExists(i) = NameOfRun(j)
            /\ (IsFow(i) /\ IsRun(j)) => NameOfFow(i) = NameOfRun(j)
            /\ (IsDelIfExists(i) /\ IsFow(j)) => NameOfDelIfExists(i) = NameOfFow(j)
            /\ (IsRun(j) /\ Truthy(args.load)) =>
                 \E k \in 1..(j - 1) : IsFcl(k) /\ sent[k].st = "ok"

\* --run of a .sb file in a directory, its stem with a dot or longer than
\* 24 characters: compiled, uploaded and started under one name
C20_Witness ==
    /\ args.run # None /\ splitext(args.run[1])[2] = ExtSb
    /\ Len(BaseOf(args.run[1])) < Len(args.run[1])
    /\ Len(BaseOf(args.run[1])) > 24 + 3
    /\ exit = <<0>>
    /\ \E i, j \in DOMAIN sent :
         /\ IsFow(i) /\ IsRun(j) /\ i < j
         /\ NameOfRun(j) = NameOfFow(i) /\ Len(NameOfRun(j)) = 24

\* the same for "e.f/a.b.sb", whose stem and directory hold a dot
C20_WitnessDots ==
    /\ args.run = Some(<<101, 46, 102, 47, 97, 46, 98, 46, 115, 98>>)
    /\ exit = <<0>>
    /\ \E i, j \in DOMAIN sent :
         IsFow(i) /\ IsRun(j) /\ NameOfFow(i) = <<97>> /\ NameOfRun(j) = <<97>>

\* no proper prefix of s ends with "00\r"
NoEarlierTerminator(s) ==
    \A k \in 0..(Len(s) - 1) : ~EndsWith(SubSeq(s, 1, k), Terminator)

(***************************************************************************)
(* C18: while writecmd reads, the bytes read followed by the bytes queued  *)
(* are the device's stream, read in order one byte at a time and never     *)
(* when the bytes read already end with "00\r"; so on success the bytes    *)
(* read are the shortest prefix of the stream that ends with "00\r", and   *)
(* what follows it stays queued: the next command starts with no bytes     *)
(* read and with these bytes first in the queue, unless format or run read *)
(* them away in between.                                                   *)
(***************************************************************************)
C18_ShortestPrefix ==
    /\ [][(reading /\ reading') =>
            /\ response' \o rx' = response \o rx
            /\ Len(response') \in {Len(response), Len(response) + 1}]_vars
    /\ [][(reading /\ response' # response) => ~EndsWith(response, Terminator)]_vars
    /\ [][(reading /\ ~reading' /\ result'.kind = "ok") =>
            /\ EndsWith(response, Terminator)
            /\ NoEarlierTerminator(response)
            /\ response' = response /\ rx' = rx]_vars
    /\ [][(~reading /\ reading') => (response' = <<>> /\ StartsWith(rx', rx))]_vars
    /\ [][(~reading /\ rx' # rx) =>
            (StartsWith(rx', rx) \/ pc \in {"fmt_settle", "run_read"})]_vars

\* the answer "\n00\rx" to one command left its "x" to the next, which
\* succeeded with "x\n00\r"
C18_Witness ==
    /\ ~reading /\ result.kind = "ok"
    /\ response = <<120, 10, 48, 48, 13>>
    /\ Len(sent) >= 2 /\ sent[Len(sent) - 1].st = "ok" /\ sent[Len(sent)].st = "ok"

\* a reply "00\r00\r": the call succeeded on its first three bytes and the
\* other three are queued
C18_WitnessEarlyEnd ==
    /\ ~reading /\ result.kind = "ok"
    /\ response = Terminator /\ rx = Terminator

=============================================================================
